---- MODULE Spec2Model ----
(***************************************************************************)
(* Model of the Boardkit desktop shell (apps/desktop/src-tauri/src/lib.rs): *)
(* the application menu built by create_menu, the setup closure that        *)
(* installs the menu and registers the global shortcut, the global-shortcut *)
(* handler and the menu-event dispatcher.  The host toolkit is modelled by  *)
(* what the shell observes of it: whether the "main" window exists, whether *)
(* a fallible call succeeds, and the trace of calls the shell makes on it.  *)
(***************************************************************************)
EXTENDS Integers, Sequences, FiniteSets, TLC

VARIABLES phase, menu, registered, setupLog, mainWindow, events, calls, built

vars == <<phase, menu, registered, setupLog, mainWindow, events, calls, built>>

(* ------------------------------ bounds --------------------------------- *)

\* number of input events (shortcut events and menu activations) delivered
MaxInputs == 2

\* number of create_menu results recorded (the one of setup included)
MaxBuilds == 2

\* number of input events delivered while create_menu is called repeatedly
MaxBetween == 1

(* --------------------------- host vocabulary --------------------------- *)

NoId == "<none>"
NoAccel == "<none>"
NoEvent == "<none>"
NoText == "<none>"
NoError == "<none>"
NoMenu == <<>>
Unit == "()"

\* Shortcut::new(Some(mods), key)
Shortcut(mods, key) == [mods |-> mods, key |-> key]

\* variant: the handler compares against control+shift+space
cmd_shift_space_ctrl == Shortcut({"CONTROL", "SHIFT"}, "Space")

\* the binding compared against inside the handler
cmd_shift_space == Shortcut({"SUPER", "SHIFT"}, "Space")

\* the binding registered by the setup closure
setup_shortcut == Shortcut({"SUPER", "SHIFT"}, "Space")

\* shortcuts the plugin may report to the handler
Shortcuts == { Shortcut({"SUPER", "SHIFT"}, "Space"),
               Shortcut({"CONTROL", "SHIFT"}, "Space"),
               Shortcut({"SUPER", "SHIFT"}, "KeyK") }

ShortcutStates == {"Pressed", "Released"}

(* ------------------------------ the menu ------------------------------- *)

\* PredefinedMenuItem::<kind>(app, text): no custom id, host-supplied accelerator
PredefinedMenuItem(kind, text) ==
    [kind |-> kind, id |-> NoId, label |-> text, enabled |-> TRUE, accel |-> NoAccel]

\* MenuItem::with_id(app, id, text, enabled, accelerator)
MenuItem(id, text, enabled, accel) ==
    [kind |-> "item", id |-> id, label |-> text, enabled |-> enabled, accel |-> accel]

\* Submenu::with_items(app, text, enabled, items)
Submenu(text, enabled, items) ==
    [label |-> text, enabled |-> enabled, items |-> items]

separator == PredefinedMenuItem("separator", NoText)

app_menu ==
    Submenu("Boardkit", TRUE,
            << PredefinedMenuItem("about", "About Boardkit"),
               separator,
               PredefinedMenuItem("services", NoText),
               separator,
               PredefinedMenuItem("hide", NoText),
               PredefinedMenuItem("hide_others", NoText),
               PredefinedMenuItem("show_all", NoText),
               separator,
               PredefinedMenuItem("quit", NoText) >>)

new_board == MenuItem("new_board", "New Board", TRUE, "CmdOrCtrl+N")
open_file == MenuItem("open_file", "Open...", TRUE, "CmdOrCtrl+O")
save == MenuItem("save", "Save", TRUE, "CmdOrCtrl+S")
export == MenuItem("export", "Export as .boardkit", TRUE, "CmdOrCtrl+Shift+E")

file_menu ==
    Submenu("File", TRUE, << new_board, open_file, separator, save, export >>)

edit_menu ==
    Submenu("Edit", TRUE,
            << PredefinedMenuItem("undo", NoText),
               PredefinedMenuItem("redo", NoText),
               separator,
               PredefinedMenuItem("cut", NoText),
               PredefinedMenuItem("copy", NoText),
               PredefinedMenuItem("paste", NoText),
               PredefinedMenuItem("select_all", NoText) >>)

command_palette == MenuItem("command_palette", "Command Palette...", TRUE, "CmdOrCtrl+K")
reset_view == MenuItem("reset_view", "Reset View", TRUE, "CmdOrCtrl+0")

view_menu ==
    Submenu("View", TRUE,
            << command_palette, separator, reset_view, separator,
               PredefinedMenuItem("fullscreen", NoText) >>)

window_menu ==
    Submenu("Window", TRUE,
            << PredefinedMenuItem("minimize", NoText),
               PredefinedMenuItem("maximize", NoText),
               separator,
               PredefinedMenuItem("close_window", NoText) >>)

\* the fallible constructor calls of create_menu (each `?` and the final
\* Menu::with_items), in the order the code evaluates them
ConstructionSteps ==
    << "about", "separator", "services", "separator", "hide", "hide_others",
       "show_all", "separator", "quit", "app_menu",
       "new_board", "open_file", "save", "export",
       "separator", "file_menu",
       "undo", "redo", "separator", "cut", "copy", "paste", "select_all", "edit_menu",
       "command_palette", "reset_view",
       "separator", "separator", "fullscreen", "view_menu",
       "minimize", "maximize", "separator", "close_window", "window_menu",
       "menu" >>

NumSteps == Len(ConstructionSteps)

\* 0: the host accepts every item; k: the k-th constructor call is rejected
FailPoints == 0..NumSteps

\* the state of the application handle that create_menu is given
AppHandle == [window |-> mainWindow, inputs |-> Len(events)]

\* variant: the File submenu is enabled only while the main window exists
create_menu_window_dependent(app, failAt) ==
    IF failAt # 0
    THEN [ok |-> FALSE, err |-> ConstructionSteps[failAt], menu |-> NoMenu]
    ELSE [ok |-> TRUE, err |-> NoError,
          menu |-> << app_menu,
                      [file_menu EXCEPT !.enabled = app.window],
                      edit_menu, view_menu, window_menu >>]

\* variant: the View submenu lacks the reset_view item
create_menu_no_reset_view(app, failAt) ==
    IF failAt # 0
    THEN [ok |-> FALSE, err |-> ConstructionSteps[failAt], menu |-> NoMenu]
    ELSE [ok |-> TRUE, err |-> NoError,
          menu |-> << app_menu, file_menu, edit_menu,
                      [view_menu EXCEPT !.items = SubSeq(view_menu.items, 1, 1)],
                      window_menu >>]

\* fn create_menu(app) -> tauri::Result<Menu>
create_menu(app, failAt) ==
    IF failAt # 0
    THEN [ok |-> FALSE, err |-> ConstructionSteps[failAt], menu |-> NoMenu]
    ELSE [ok |-> TRUE, err |-> NoError,
          menu |-> << app_menu, file_menu, edit_menu, view_menu, window_menu >>]

(* ----------------------------- host calls ------------------------------ *)

\* one call made on the main window handle; its Result is discarded by `let _ =`
Call(op, event, ok) == [op |-> op, event |-> event, payload |-> Unit, ok |-> ok]

Show(ok) == [op |-> "show", event |-> NoEvent, payload |-> NoEvent, ok |-> ok]
SetFocus(ok) == [op |-> "set_focus", event |-> NoEvent, payload |-> NoEvent, ok |-> ok]
Emit(event, ok) == Call("emit", event, ok)

\* what one handler invocation did: the calls it made, and whether it panicked
Reaction(cs, panic) == [calls |-> cs, panic |-> panic]

(* ------------------------- the shortcut handler ------------------------ *)

\* variant: the state of the event is not tested
with_handler_any_state(window, shortcut, state, showOk, focusOk, emitOk) ==
    IF shortcut = cmd_shift_space
    THEN IF window
         THEN Reaction(<< Show(showOk), SetFocus(focusOk),
                          Emit("open-command-palette", emitOk) >>, FALSE)
         ELSE Reaction(<< >>, FALSE)
    ELSE Reaction(<< >>, FALSE)

\* variant: the results of show, set_focus and emit are unwrapped
with_handler_unwrap(window, shortcut, state, showOk, focusOk, emitOk) ==
    IF state = "Pressed" /\ shortcut = cmd_shift_space /\ window
    THEN IF ~showOk THEN Reaction(<< Show(showOk) >>, TRUE)
         ELSE IF ~focusOk THEN Reaction(<< Show(showOk), SetFocus(focusOk) >>, TRUE)
         ELSE Reaction(<< Show(showOk), SetFocus(focusOk),
                          Emit("open-command-palette", emitOk) >>, ~emitOk)
    ELSE Reaction(<< >>, FALSE)

\* variant: the window lookup is unwrapped
with_handler_no_lookup(window, shortcut, state, showOk, focusOk, emitOk) ==
    IF state = "Pressed" /\ shortcut = cmd_shift_space
    THEN IF window
         THEN Reaction(<< Show(showOk), SetFocus(focusOk),
                          Emit("open-command-palette", emitOk) >>, FALSE)
         ELSE Reaction(<< >>, TRUE)
    ELSE Reaction(<< >>, FALSE)

\* .with_handler(|app, shortcut, event| { ... })
with_handler(window, shortcut, state, showOk, focusOk, emitOk) ==
    IF state = "Pressed"
    THEN IF shortcut = cmd_shift_space
         THEN IF window
              THEN Reaction(<< Show(showOk), SetFocus(focusOk),
                               Emit("open-command-palette", emitOk) >>, FALSE)
              ELSE Reaction(<< >>, FALSE)
         ELSE Reaction(<< >>, FALSE)
    ELSE Reaction(<< >>, FALSE)

(* ----------------------- the menu-event dispatcher --------------------- *)

\* ids a menu activation may carry: the custom ids, ids of host-predefined
\* items, and an id no item of the tree has
PredefinedIds == {"quit", "undo", "minimize"}
MenuIds == {"new_board", "open_file", "save", "export", "command_palette",
            "reset_view"} \cup PredefinedIds \cup {"unknown"}

\* variant: the save arm emits the export event
MenuEventName_save_as_export(id) ==
    CASE id = "new_board" -> "menu-new-board"
      [] id = "open_file" -> "menu-open-file"
      [] id = "save" -> "menu-export"
      [] id = "export" -> "menu-export"
      [] id = "command_palette" -> "open-command-palette"
      [] id = "reset_view" -> "menu-reset-view"
      [] OTHER -> NoEvent

\* variant: an extra arm for the predefined quit item
MenuEventName_quit(id) ==
    CASE id = "new_board" -> "menu-new-board"
      [] id = "open_file" -> "menu-open-file"
      [] id = "save" -> "menu-save"
      [] id = "export" -> "menu-export"
      [] id = "command_palette" -> "open-command-palette"
      [] id = "reset_view" -> "menu-reset-view"
      [] id = "quit" -> "menu-quit"
      [] OTHER -> NoEvent

\* match event.id().as_ref() { ... }: the event each arm emits
MenuEventName(id) ==
    CASE id = "new_board" -> "menu-new-board"
      [] id = "open_file" -> "menu-open-file"
      [] id = "save" -> "menu-save"
      [] id = "export" -> "menu-export"
      [] id = "command_palette" -> "open-command-palette"
      [] id = "reset_view" -> "menu-reset-view"
      [] OTHER -> NoEvent

\* variant: the command_palette arm also shows and focuses the window
on_menu_event_shows(window, id, emitOk) ==
    IF window
    THEN IF MenuEventName(id) # NoEvent
         THEN IF id = "command_palette"
              THEN Reaction(<< Show(TRUE), SetFocus(TRUE),
                               Emit(MenuEventName(id), emitOk) >>, FALSE)
              ELSE Reaction(<< Emit(MenuEventName(id), emitOk) >>, FALSE)
         ELSE Reaction(<< >>, FALSE)
    ELSE Reaction(<< >>, FALSE)

\* .on_menu_event(|app, event| { ... })
on_menu_event(window, id, emitOk) ==
    IF window
    THEN IF MenuEventName(id) # NoEvent
         THEN Reaction(<< Emit(MenuEventName(id), emitOk) >>, FALSE)
         ELSE Reaction(<< >>, FALSE)
    ELSE Reaction(<< >>, FALSE)

(* --------------------------------- setup ------------------------------- *)

Step(name, ok) == [step |-> name, ok |-> ok]

\* variant: the shortcut is registered before the menu is built
setup_registers_first(app, failAt, setMenuOk, registerOk) ==
    LET r == create_menu(app, failAt) IN
    IF ~registerOk
    THEN [ok |-> FALSE, menu |-> NoMenu, registered |-> {},
          log |-> << Step("register", FALSE) >>]
    ELSE IF ~r.ok
    THEN [ok |-> FALSE, menu |-> NoMenu, registered |-> {setup_shortcut},
          log |-> << Step("register", TRUE), Step("create_menu", FALSE) >>]
    ELSE IF ~setMenuOk
    THEN [ok |-> FALSE, menu |-> NoMenu, registered |-> {setup_shortcut},
          log |-> << Step("register", TRUE), Step("create_menu", TRUE),
                     Step("set_menu", FALSE) >>]
    ELSE [ok |-> TRUE, menu |-> r.menu, registered |-> {setup_shortcut},
          log |-> << Step("register", TRUE), Step("create_menu", TRUE),
                     Step("set_menu", TRUE) >>]

\* .setup(|app| { ... }): each `?` returns the error to the host
setup(app, failAt, setMenuOk, registerOk) ==
    LET r == create_menu(app, failAt) IN
    IF ~r.ok
    THEN [ok |-> FALSE, menu |-> NoMenu, registered |-> {},
          log |-> << Step("create_menu", FALSE) >>]
    ELSE IF ~setMenuOk
    THEN [ok |-> FALSE, menu |-> NoMenu, registered |-> {},
          log |-> << Step("create_menu", TRUE), Step("set_menu", FALSE) >>]
    ELSE IF ~registerOk
    THEN [ok |-> FALSE, menu |-> r.menu, registered |-> {},
          log |-> << Step("create_menu", TRUE), Step("set_menu", TRUE),
                     Step("register", FALSE) >>]
    ELSE [ok |-> TRUE, menu |-> r.menu, registered |-> {setup_shortcut},
          log |-> << Step("create_menu", TRUE), Step("set_menu", TRUE),
                     Step("register", TRUE) >>]

(* ------------------------------ the machine ---------------------------- *)

\* pub fn run(): the builder is assembled, setup has not run yet
Init ==
    /\ phase = "starting"
    /\ menu = NoMenu
    /\ registered = {}
    /\ setupLog = << >>
    /\ mainWindow = FALSE
    /\ events = << >>
    /\ calls = << >>
    /\ built = << >>

\* the host runs the setup closure; an Err makes run() panic in .expect()
Setup ==
    /\ phase = "starting"
    /\ \E failAt \in FailPoints, setMenuOk \in BOOLEAN, registerOk \in BOOLEAN :
          LET r == setup(AppHandle, failAt, setMenuOk, registerOk) IN
          /\ phase' = IF r.ok THEN "running" ELSE "aborted"
          /\ menu' = r.menu
          /\ registered' = r.registered
          /\ setupLog' = r.log
          /\ built' = IF create_menu(AppHandle, failAt).ok
                       THEN Append(built, [app |-> AppHandle,
                                           menu |-> create_menu(AppHandle, failAt).menu])
                       ELSE built
    /\ UNCHANGED <<mainWindow, events, calls>>

\* the host creates the window labelled "main"
WindowCreated ==
    /\ phase # "aborted"
    /\ ~mainWindow
    /\ mainWindow' = TRUE
    /\ UNCHANGED <<phase, menu, registered, setupLog, events, calls, built>>

\* the window labelled "main" is closed
WindowClosed ==
    /\ phase # "aborted"
    /\ mainWindow
    /\ mainWindow' = FALSE
    /\ UNCHANGED <<phase, menu, registered, setupLog, events, calls, built>>

Tagged(cs, n) == [i \in 1..Len(cs) |-> [call |-> cs[i], input |-> n]]

\* the plugin reports a shortcut event to the handler
ShortcutEvent(limit) ==
    /\ phase = "running"
    /\ Len(events) < limit
    /\ \E shortcut \in Shortcuts, state \in ShortcutStates,
          showOk \in BOOLEAN, focusOk \in BOOLEAN, emitOk \in BOOLEAN :
          LET r == with_handler(mainWindow, shortcut, state, showOk, focusOk, emitOk) IN
          /\ events' = Append(events, [handler |-> "shortcut", shortcut |-> shortcut,
                                       state |-> state, id |-> NoId,
                                       window |-> mainWindow, panic |-> r.panic])
          /\ calls' = calls \o Tagged(r.calls, Len(events) + 1)
          /\ phase' = IF r.panic THEN "aborted" ELSE phase
    /\ UNCHANGED <<menu, registered, setupLog, mainWindow, built>>

\* the host reports the activation of a menu item to the dispatcher
MenuEvent(limit) ==
    /\ phase = "running"
    /\ Len(events) < limit
    /\ \E id \in MenuIds, emitOk \in BOOLEAN :
          LET r == on_menu_event(mainWindow, id, emitOk) IN
          /\ events' = Append(events, [handler |-> "menu", shortcut |-> NoId,
                                       state |-> NoId, id |-> id,
                                       window |-> mainWindow, panic |-> r.panic])
          /\ calls' = calls \o Tagged(r.calls, Len(events) + 1)
          /\ phase' = IF r.panic THEN "aborted" ELSE phase
    /\ UNCHANGED <<menu, registered, setupLog, mainWindow, built>>

OnShortcut == ShortcutEvent(MaxInputs)
OnMenuEvent == MenuEvent(MaxInputs)

Next == Setup \/ WindowCreated \/ WindowClosed \/ OnShortcut \/ OnMenuEvent

Spec == Init /\ [][Next]_vars

\* a further call of create_menu on the same application handle
CreateMenuCall ==
    /\ phase # "aborted"
    /\ Len(built) < MaxBuilds
    /\ \E failAt \in FailPoints :
          LET r == create_menu(AppHandle, failAt) IN
          built' = IF r.ok THEN Append(built, [app |-> AppHandle, menu |-> r.menu])
                           ELSE built
    /\ UNCHANGED <<phase, menu, registered, setupLog, mainWindow, events, calls>>

OnShortcutBetween == ShortcutEvent(MaxBetween)
OnMenuEventBetween == MenuEvent(MaxBetween)

NextMenu == Setup \/ WindowCreated \/ WindowClosed \/ OnShortcutBetween
               \/ OnMenuEventBetween \/ CreateMenuCall

SpecMenu == Init /\ [][NextMenu]_vars

(* ------------------------- reading the history ------------------------- *)

Inputs == 1..Len(events)

\* the calls made by the n-th handler invocation, in order
CallsOf(n) ==
    LET s == SelectSeq(calls, LAMBDA c : c.input = n) IN
    [i \in 1..Len(s) |-> s[i].call]

IsEmit(c) == c.op = "emit"
EmitsOf(n) == SelectSeq(CallsOf(n), IsEmit)
AllEmits == SelectSeq(calls, LAMBDA c : c.call.op = "emit")

\* the operation and event name of each call, without its outcome
Shape(cs) == [i \in 1..Len(cs) |-> <<cs[i].op, cs[i].event>>]

SuperShiftSpace == [mods |-> {"SUPER", "SHIFT"}, key |-> "Space"]

CustomIds == {"new_board", "open_file", "save", "export", "command_palette", "reset_view"}

\* the event the specification assigns to each custom id
SpecEvent ==
    [id \in CustomIds |->
        CASE id = "new_board" -> "menu-new-board"
          [] id = "open_file" -> "menu-open-file"
          [] id = "save" -> "menu-save"
          [] id = "export" -> "menu-export"
          [] id = "command_palette" -> "open-command-palette"
          [] id = "reset_view" -> "menu-reset-view"]

IsMenuInput(n) == events[n].handler = "menu"
IsShortcutInput(n) == events[n].handler = "shortcut"
IsMatchingPress(n) ==
    /\ IsShortcutInput(n)
    /\ events[n].state = "Pressed"
    /\ events[n].shortcut = SuperShiftSpace

EmitsPalette(n) ==
    \E i \in 1..Len(CallsOf(n)) :
        CallsOf(n)[i].op = "emit" /\ CallsOf(n)[i].event = "open-command-palette"

(* -------------------------------- claims ------------------------------- *)

\* C1: with the main window present, every activation of one of the six
\* custom ids, whatever came before it, makes the dispatcher perform exactly
\* one call, an emit of the event assigned to that id with the unit payload.
C1_MenuMapping ==
    \A n \in Inputs :
        (IsMenuInput(n) /\ events[n].window /\ events[n].id \in CustomIds)
            => /\ Len(CallsOf(n)) = 1
               /\ CallsOf(n)[1].op = "emit"
               /\ CallsOf(n)[1].event = SpecEvent[events[n].id]
               /\ CallsOf(n)[1].payload = Unit

C1_Witness ==
    /\ Len(events) >= 2
    /\ IsMenuInput(1) /\ events[1].window /\ events[1].id = "export"
    /\ IsMenuInput(2) /\ events[2].window /\ events[2].id = "save"
    /\ Shape(CallsOf(2)) = << <<"emit", "menu-save">> >>

\* C2: an activation whose id is not one of the six custom ids makes the
\* dispatcher emit nothing, with or without the main window.
C2_UnrecognizedIgnored ==
    \A n \in Inputs :
        (IsMenuInput(n) /\ events[n].id \notin CustomIds) => EmitsOf(n) = << >>

C2_Witness ==
    /\ Len(events) >= 2
    /\ IsMenuInput(1) /\ events[1].id = "quit" /\ events[1].window
    /\ IsMenuInput(2) /\ events[2].id = "unknown" /\ ~events[2].window
    /\ calls = << >>

\* C3 as stated: the shortcut handler emits open-command-palette exactly when
\* the event is a press of super+shift+space.
C3_AsStated ==
    \A n \in Inputs :
        IsShortcutInput(n) => (EmitsPalette(n) <=> IsMatchingPress(n))

\* C3 amended: the shortcut handler emits open-command-palette exactly when
\* the event is a press of super+shift+space and the main window exists.
C3_EmitIffPressMatchWindow ==
    \A n \in Inputs :
        IsShortcutInput(n) =>
            (EmitsPalette(n) <=> (IsMatchingPress(n) /\ events[n].window))

C3_Witness ==
    /\ Len(events) >= 2
    /\ IsShortcutInput(1) /\ events[1].shortcut = SuperShiftSpace
    /\ events[1].state = "Released" /\ events[1].window /\ ~EmitsPalette(1)
    /\ IsMatchingPress(2) /\ events[2].window /\ EmitsPalette(2)

\* C4: a handler that runs while there is no main window makes no call at
\* all (no show, no set_focus, no emit) and returns without a panic, leaving
\* the application running.
C4_NoWindowNoop ==
    /\ \A n \in Inputs :
          ~events[n].window => (CallsOf(n) = << >> /\ ~events[n].panic)
    /\ (events # << >>) => phase = "running"

C4_Witness ==
    /\ Len(events) >= 2
    /\ IsMatchingPress(1) /\ ~events[1].window
    /\ IsMenuInput(2) /\ events[2].id \in CustomIds /\ ~events[2].window
    /\ calls = << >>
    /\ phase = "running"

\* C5: a matching press with the main window present calls show, set_focus
\* and emit(open-command-palette) in that order whatever the outcome of each
\* call, and no failed call of either handler stops the application.
C5_BestEffortOrder ==
    /\ \A n \in Inputs :
          (IsMatchingPress(n) /\ events[n].window)
              => Shape(CallsOf(n)) = << <<"show", NoEvent>>, <<"set_focus", NoEvent>>,
                                        <<"emit", "open-command-palette">> >>
    /\ \A n \in Inputs : ~events[n].panic
    /\ (events # << >>) => phase = "running"

C5_Witness ==
    /\ Len(events) >= 2
    /\ IsMatchingPress(1) /\ events[1].window
    /\ Len(CallsOf(1)) = 3
    /\ \A i \in 1..3 : ~CallsOf(1)[i].ok
    /\ IsMenuInput(2) /\ Len(CallsOf(2)) = 1 /\ ~CallsOf(2)[1].ok
    /\ phase = "running"

SetupOrder == << "create_menu", "set_menu", "register" >>

\* C6: setup runs create_menu, set_menu, register in that order and stops at
\* the first failure; it succeeds exactly when all three succeeded, a failure
\* aborts startup, and the shortcut is registered only after the menu was
\* built and installed.
C6_SetupFatal ==
    /\ Len(setupLog) <= 3
    /\ \A i \in 1..Len(setupLog) :
          /\ setupLog[i].step = SetupOrder[i]
          /\ (i < Len(setupLog)) => setupLog[i].ok
    /\ (phase = "starting") <=> (setupLog = << >>)
    /\ (phase = "running") <=>
          (Len(setupLog) = 3 /\ \A i \in 1..3 : setupLog[i].ok)
    /\ (phase = "aborted") <=>
          (setupLog # << >> /\ ~setupLog[Len(setupLog)].ok)
    /\ (registered # {}) =>
          (Len(setupLog) = 3 /\ \A i \in 1..3 : setupLog[i].ok)
    /\ (menu # NoMenu) =>
          (Len(setupLog) >= 2 /\ setupLog[1].ok /\ setupLog[2].ok)

C6_Witness ==
    /\ phase = "aborted"
    /\ Len(setupLog) = 2
    /\ setupLog[2] = [step |-> "set_menu", ok |-> FALSE]
    /\ registered = {}

Labels(tree) == [i \in 1..Len(tree) |-> tree[i].label]

\* the custom ids of a submenu, in menu order
CustomIdsOf(sub) ==
    LET s == SelectSeq(sub.items, LAMBDA it : it.id # NoId) IN
    [i \in 1..Len(s) |-> s[i].id]

AllCustomIds(tree) ==
    CustomIdsOf(tree[1]) \o CustomIdsOf(tree[2]) \o CustomIdsOf(tree[3])
        \o CustomIdsOf(tree[4]) \o CustomIdsOf(tree[5])

Range(s) == { s[i] : i \in 1..Len(s) }

\* the ids for which the dispatcher emits when the window exists
DispatcherIds == { id \in MenuIds : on_menu_event(TRUE, id, TRUE).calls # << >> }

WellFormedTree(tree) ==
    /\ Len(tree) = 5
    /\ Labels(tree) = << "Boardkit", "File", "Edit", "View", "Window" >>
    /\ CustomIdsOf(tree[2]) = << "new_board", "open_file", "save", "export" >>
    /\ CustomIdsOf(tree[4]) = << "command_palette", "reset_view" >>
    /\ CustomIdsOf(tree[1]) = << >>
    /\ CustomIdsOf(tree[3]) = << >>
    /\ CustomIdsOf(tree[5]) = << >>
    /\ Cardinality(Range(AllCustomIds(tree))) = Len(AllCustomIds(tree))
    /\ Range(AllCustomIds(tree)) = DispatcherIds

\* C8: every tree create_menu returned, and the installed one, has the five
\* submenus Boardkit, File, Edit, View, Window in that order, the custom ids
\* new_board, open_file, save, export in File and command_palette, reset_view
\* in View, pairwise distinct, and exactly the ids the dispatcher recognizes.
C8_TreeShape ==
    /\ \A i \in 1..Len(built) : WellFormedTree(built[i].menu)
    /\ (menu # NoMenu) => WellFormedTree(menu)

C8_Witness ==
    /\ phase = "running"
    /\ menu # NoMenu
    /\ Len(built) = 1
    /\ menu = built[1].menu

\* C9: at most one shortcut is registered, it is super+shift+space, a running
\* application has it registered, and every press of a registered shortcut
\* with the main window present attempts the emit of open-command-palette.
C9_SameBinding ==
    /\ registered \subseteq {SuperShiftSpace}
    /\ (phase = "running") => registered = {SuperShiftSpace}
    /\ \A n \in Inputs :
          ( /\ IsShortcutInput(n)
            /\ events[n].state = "Pressed"
            /\ events[n].shortcut \in registered
            /\ events[n].window ) => EmitsPalette(n)

C9_Witness ==
    /\ registered = {SuperShiftSpace}
    /\ Len(events) >= 1
    /\ IsShortcutInput(1) /\ events[1].state = "Pressed"
    /\ events[1].shortcut \in registered /\ events[1].window
    /\ EmitsPalette(1)

\* C10: every handler invocation emits at most once, the dispatcher never
\* calls show or set_focus, the emits never outnumber the inputs, and no
\* handler step changes the installed menu or the registered shortcut.
C10_Frame ==
    /\ [](/\ \A n \in Inputs : Len(EmitsOf(n)) <= 1
          /\ \A n \in Inputs :
                IsMenuInput(n) => \A i \in 1..Len(CallsOf(n)) : CallsOf(n)[i].op = "emit"
          /\ Len(AllEmits) <= Len(events))
    /\ [][(events' # events) => (menu' = menu /\ registered' = registered
                                  /\ setupLog' = setupLog)]_vars

C10_Witness ==
    /\ Len(events) >= 2
    /\ IsMatchingPress(1) /\ events[1].window /\ Len(CallsOf(1)) = 3
    /\ IsMenuInput(2) /\ events[2].id = "command_palette" /\ events[2].window
    /\ Len(AllEmits) = 2
    /\ menu = built[1].menu
    /\ registered = {SuperShiftSpace}

====
